---- MODULE Spec2Model ----
(***************************************************************************)
(* Request handlers of trackersite/tracker/views.py: ticket creation and   *)
(* editing with their two inline formsets, the comment-posted redirect of  *)
(* the detail pages, and the aggregate totals of the user list.            *)
(***************************************************************************)
EXTENDS Integers, Sequences, FiniteSets, TLC

(* ---------------------------------------------------------------------- *)
(* Bounds of the model                                                     *)
(* ---------------------------------------------------------------------- *)
\* MediaInfo (resp. Expediture) rows one ticket may hold
MaxItems == 1
\* tickets in the database the user list is computed over
ListedTickets == 2
\* success messages queued for one session
MaxMessages == 2
\* redirects a browser follows before it gives up
MaxRedirects == 3

\* The create/edit model follows the ticket with this id: a handler writes
\* only the ticket it creates or the one its pk names.
TicketIds == {1}

(* ---------------------------------------------------------------------- *)
(* Data                                                                    *)
(* ---------------------------------------------------------------------- *)
Users == {"alice", "bob"}
NoUser == "nobody"

\* Topic rows: one collecting nothing, one collecting media, one expenses.
TopicIds == {1, 2, 3}
NoTopic == 0
TopicFlags ==
  [t \in TopicIds |->
     [ticket_media |-> (t = 2), ticket_expenses |-> (t = 3)]]

\* values a valid line-item form can carry (MediaInfo.count, Expediture.amount)
ItemValues == {1}

\* Field values of a Ticket() the form has not touched; the fields are the
\* form's topic and those TicketForm.Meta.exclude keeps out of the form
NewTicket ==
  [topic |-> NoTopic, requested_user |-> NoUser, state |-> "draft",
   custom_state |-> "", rating_percentage |-> 0, amount_paid |-> 0,
   cluster |-> 0]

\* what a POST may carry for the excluded fields
PostedExcluded ==
  [requested_user |-> "mallory", state |-> "approved",
   custom_state |-> "paid", rating_percentage |-> 100, amount_paid |-> 9,
   cluster |-> 7]

VARIABLES
  topics,       \* Topic.open_for_tickets, by topic id
  tickets,      \* Ticket rows, by id (ids are 1..Len)
  mediainfo,    \* MediaInfo rows of each ticket (their count fields)
  expeditures,  \* Expediture rows of each ticket (their amount fields)
  request,      \* the request the last handler run served
  response,     \* what it answered
  session,      \* detail pages: the browser following a comment redirect
  report        \* user_list: the context handed to the template

vars == <<topics, tickets, mediainfo, expeditures, request, response, session, report>>

NoRequest == [view |-> "none"]
NoResponse == [status |-> "none"]
NoReport == [status |-> "none"]
NoPage == [model |-> "none", pk |-> 0]
IdleSession ==
  [pc |-> "idle", visit |-> [path |-> NoPage, query |-> {}, messages |-> 0],
   path |-> NoPage, query |-> {}, redirects |-> 0, messages |-> 0]

(* ---------------------------------------------------------------------- *)
(* Formsets                                                                *)
(* ---------------------------------------------------------------------- *)
\* The POST data of one inline formset: whether its management form is
\* readable, whether some submitted form fails validation, the initial forms
\* marked DELETE and the values of the filled-in extra forms.
SeqsUpTo(S, n) == UNION {[1..k -> S] : k \in 0..n}

FormSetData(rows, extra) ==
  {[malformed |-> TRUE, invalid |-> FALSE, delete |-> {}, new |-> <<>>],
   [malformed |-> FALSE, invalid |-> TRUE, delete |-> {}, new |-> <<>>]}
  \cup
  {[malformed |-> FALSE, invalid |-> FALSE, delete |-> d, new |-> n] :
     d \in SUBSET (1..Len(rows)), n \in SeqsUpTo(ItemValues, extra)}

\* BaseFormSet.__init__ reads the management form and raises ValidationError
\* when it is missing or tampered with.
FormSet_raises(data) == data.malformed

\* formset.is_valid()
FormSet_is_valid(data) == ~data.invalid

RECURSIVE KeepRows(_, _, _)
KeepRows(rows, delete, i) ==
  IF i > Len(rows) THEN <<>>
  ELSE (IF i \in delete THEN <<>> ELSE <<rows[i]>>) \o KeepRows(rows, delete, i + 1)

\* a save that forgets the DELETE marks
FormSet_save_keep_deleted(rows, data, can_delete) == rows \o data.new

\* formset.save(): drops the rows marked DELETE (when the formset was built
\* with can_delete) and adds one row per filled-in extra form.
FormSet_save(rows, data, can_delete) ==
  KeepRows(rows, IF can_delete THEN data.delete ELSE {}, 1) \o data.new

(* ---------------------------------------------------------------------- *)
(* TicketForm and EditTicketForm                                           *)
(* ---------------------------------------------------------------------- *)
\* a queryset of every topic, open or not
get_topic_queryset_all == TopicIds

\* TicketForm.get_topic_queryset
get_topic_queryset == {t \in TopicIds : topics[t]}

\* an edit form left with the queryset of the creation form
get_edit_ticket_form_class_open_only(ticket) == {t \in TopicIds : topics[t]}

\* EditTicketForm.get_topic_queryset of get_edit_ticket_form_class(ticket)
get_edit_ticket_form_class(ticket) ==
  {t \in TopicIds : topics[t] \/ t = ticket.topic}

\* ModelChoiceField: the posted topic has to be a row of the queryset
TicketForm_is_valid(queryset, req) == req.topic \in queryset

\* a form without Meta.exclude: the posted state is written too
TicketForm_save_all_fields(instance, req) ==
  [instance EXCEPT !.topic = req.topic, !.state = req.excluded.state]

\* ModelForm.save: writes the fields of the form, never an excluded field
TicketForm_save(instance, req) == [instance EXCEPT !.topic = req.topic]

(* ---------------------------------------------------------------------- *)
(* create_ticket                                                           *)
(* ---------------------------------------------------------------------- *)
CreateExtra == 2
EditExtra == 1

\* the rows a ticket holds stay within MaxItems
Capped(rows, data) ==
  Len(rows) - Cardinality(data.delete) + Len(data.new) <= MaxItems

CreateRequests ==
  [view : {"create_ticket"}, method : {"GET"}, user : Users, pk : {0},
   can_edit : {TRUE}, topic : {NoTopic}, excluded : {PostedExcluded},
   mediainfo : {[malformed |-> FALSE, invalid |-> FALSE, delete |-> {}, new |-> <<>>]},
   expeditures : {[malformed |-> FALSE, invalid |-> FALSE, delete |-> {}, new |-> <<>>]}]
  \cup
  [view : {"create_ticket"}, method : {"POST"}, user : Users, pk : {0},
   can_edit : {TRUE}, topic : TopicIds \cup {NoTopic}, excluded : {PostedExcluded},
   mediainfo : {d \in FormSetData(<<>>, CreateExtra) : Capped(<<>>, d)},
   expeditures : {d \in FormSetData(<<>>, CreateExtra) : Capped(<<>>, d)}]

\* validation of a collection only under a topic that collects it
create_ticket_is_valid_by_flags(req) ==
  /\ req.topic \in {t \in TopicIds : topics[t]}
  /\ TopicFlags[req.topic].ticket_media => ~req.mediainfo.invalid
  /\ TopicFlags[req.topic].ticket_expenses => ~req.expeditures.invalid

\* line 133
create_ticket_is_valid(req) ==
  /\ TicketForm_is_valid(get_topic_queryset, req)
  /\ FormSet_is_valid(req.mediainfo)
  /\ FormSet_is_valid(req.expeditures)

\* lines 134-137
create_ticket_instance(req) ==
  [TicketForm_save(NewTicket, req) EXCEPT
     !.requested_user = req.user, !.state = "for consideration"]

\* attachment of the media rows whatever the topic says
create_ticket_mediainfo_unconditional(ticket, req) == req.mediainfo.new

\* lines 139-141
create_ticket_mediainfo(ticket, req) ==
  IF TopicFlags[ticket.topic].ticket_media
    THEN FormSet_save(<<>>, req.mediainfo, FALSE)
    ELSE <<>>

\* lines 142-144
create_ticket_expeditures(ticket, req) ==
  IF TopicFlags[ticket.topic].ticket_expenses
    THEN FormSet_save(<<>>, req.expeditures, FALSE)
    ELSE <<>>

create_ticket(req) ==
  /\ response = NoResponse
  /\ Len(tickets) < Cardinality(TicketIds)
  /\ request' = req
  /\ UNCHANGED <<topics, session, report>>
  /\ IF req.method = "POST"
       THEN IF FormSet_raises(req.mediainfo) \/ FormSet_raises(req.expeditures)
              THEN /\ response' = [status |-> "bad_request", template |-> "", pk |-> 0]
                   /\ UNCHANGED <<tickets, mediainfo, expeditures>>
              ELSE IF create_ticket_is_valid(req)
                     THEN LET ticket == create_ticket_instance(req) IN
                          /\ tickets' = Append(tickets, ticket)
                          /\ mediainfo' = Append(mediainfo, create_ticket_mediainfo(ticket, req))
                          /\ expeditures' = Append(expeditures, create_ticket_expeditures(ticket, req))
                          /\ response' = [status |-> "redirect", template |-> "",
                                          pk |-> Len(tickets) + 1]
                     ELSE /\ response' = [status |-> "render",
                                          template |-> "tracker/create_ticket.html", pk |-> 0]
                          /\ UNCHANGED <<tickets, mediainfo, expeditures>>
       ELSE /\ response' = [status |-> "render",
                            template |-> "tracker/create_ticket.html", pk |-> 0]
            /\ UNCHANGED <<tickets, mediainfo, expeditures>>

(* ---------------------------------------------------------------------- *)
(* edit_ticket                                                             *)
(* ---------------------------------------------------------------------- *)
EditRequests(pk) ==
  [view : {"edit_ticket"}, method : {"GET"}, user : Users, pk : {pk},
   can_edit : BOOLEAN, topic : {NoTopic}, excluded : {PostedExcluded},
   mediainfo : {[malformed |-> FALSE, invalid |-> FALSE, delete |-> {}, new |-> <<>>]},
   expeditures : {[malformed |-> FALSE, invalid |-> FALSE, delete |-> {}, new |-> <<>>]}]
  \cup
  [view : {"edit_ticket"}, method : {"POST"}, user : Users, pk : {pk},
   can_edit : BOOLEAN, topic : TopicIds \cup {NoTopic}, excluded : {PostedExcluded},
   mediainfo : {d \in FormSetData(mediainfo[pk], EditExtra) : Capped(mediainfo[pk], d)},
   expeditures : {d \in FormSetData(expeditures[pk], EditExtra) : Capped(expeditures[pk], d)}]

\* a permission check made for GET only
edit_ticket_allowed_get_only(ticket, req) == req.can_edit \/ req.method = "POST"

\* line 166: ticket.can_edit(request.user), whose outcome the request carries
edit_ticket_allowed(ticket, req) == req.can_edit

\* a validity test that leaves out the expense formset
edit_ticket_is_valid_no_expeditures(ticket, req) ==
  /\ req.topic \in {t \in TopicIds : topics[t] \/ t = ticket.topic}
  /\ ~req.mediainfo.invalid

\* line 181
edit_ticket_is_valid(ticket, req) ==
  /\ TicketForm_is_valid(get_edit_ticket_form_class(ticket), req)
  /\ FormSet_is_valid(req.mediainfo)
  /\ FormSet_is_valid(req.expeditures)

edit_ticket(req) ==
  /\ response = NoResponse
  /\ req.pk \in 1..Len(tickets)
  /\ request' = req
  /\ UNCHANGED <<topics, session, report>>
  /\ LET ticket == tickets[req.pk] IN
     IF ~edit_ticket_allowed(ticket, req)
       THEN /\ response' = [status |-> "forbidden", template |-> "", pk |-> req.pk]
            /\ UNCHANGED <<tickets, mediainfo, expeditures>>
       ELSE IF req.method = "POST"
         THEN IF FormSet_raises(req.mediainfo) \/ FormSet_raises(req.expeditures)
                THEN /\ response' = [status |-> "bad_request", template |-> "", pk |-> req.pk]
                     /\ UNCHANGED <<tickets, mediainfo, expeditures>>
                ELSE IF edit_ticket_is_valid(ticket, req)
                       THEN /\ tickets' = [tickets EXCEPT ![req.pk] = TicketForm_save(ticket, req)]
                            /\ mediainfo' = [mediainfo EXCEPT ![req.pk] =
                                               FormSet_save(@, req.mediainfo, TRUE)]
                            /\ expeditures' = [expeditures EXCEPT ![req.pk] =
                                                 FormSet_save(@, req.expeditures, TRUE)]
                            /\ response' = [status |-> "redirect", template |-> "", pk |-> req.pk]
                       ELSE /\ response' = [status |-> "render",
                                            template |-> "tracker/edit_ticket.html", pk |-> req.pk]
                            /\ UNCHANGED <<tickets, mediainfo, expeditures>>
         ELSE /\ response' = [status |-> "render",
                              template |-> "tracker/edit_ticket.html", pk |-> req.pk]
              /\ UNCHANGED <<tickets, mediainfo, expeditures>>

\* get_object_or_404 (line 165): no such ticket
edit_ticket_404(pk) ==
  /\ response = NoResponse
  /\ pk \notin 1..Len(tickets)
  /\ request' = [view |-> "edit_ticket", method |-> "GET", user |-> "alice", pk |-> pk,
                 can_edit |-> FALSE, topic |-> NoTopic, excluded |-> PostedExcluded,
                 mediainfo |-> [malformed |-> FALSE, invalid |-> FALSE, delete |-> {}, new |-> <<>>],
                 expeditures |-> [malformed |-> FALSE, invalid |-> FALSE, delete |-> {}, new |-> <<>>]]
  /\ response' = [status |-> "not_found", template |-> "", pk |-> pk]
  /\ UNCHANGED <<topics, tickets, mediainfo, expeditures, session, report>>

\* The response has left; the next request can be served.
Respond ==
  /\ response # NoResponse
  /\ request' = NoRequest
  /\ response' = NoResponse
  /\ UNCHANGED <<topics, tickets, mediainfo, expeditures, session, report>>

\* An administrator opens or closes a topic for new tickets.
SetTopicOpen(t, open) ==
  /\ response = NoResponse
  /\ topics[t] # open
  /\ topics' = [topics EXCEPT ![t] = open]
  /\ UNCHANGED <<tickets, mediainfo, expeditures, request, response, session, report>>

Init ==
  /\ topics = [t \in TopicIds |-> TRUE]
  /\ tickets = <<>>
  /\ mediainfo = <<>>
  /\ expeditures = <<>>
  /\ request = NoRequest
  /\ response = NoResponse
  /\ session = IdleSession
  /\ report = NoReport

Next ==
  \/ \E req \in CreateRequests : create_ticket(req)
  \/ \E pk \in 1..Len(tickets) : \E req \in EditRequests(pk) : edit_ticket(req)
  \/ edit_ticket_404(Len(tickets) + 1)
  \/ \E t \in TopicIds, open \in BOOLEAN : SetTopicOpen(t, open)
  \/ Respond

Spec == Init /\ [][Next]_vars

(* ---------------------------------------------------------------------- *)
(* user_list                                                               *)
(* ---------------------------------------------------------------------- *)
RECURSIVE SumSeq(_)
SumSeq(q) == IF q = <<>> THEN 0 ELSE Head(q) + SumSeq(Tail(q))

RECURSIVE SumOver(_, _)
\* sum of f[x] over the finite set S
SumOver(f, S) ==
  IF S = {} THEN 0
  ELSE LET x == CHOOSE y \in S : TRUE IN f[x] + SumOver(f, S \ {x})

AllTickets == 1..Len(tickets)

\* what SQL's SUM yields over no rows
Null == -1

\* Model.objects.aggregate(Sum(...)) over the rows of the tickets in S
AggregateSum(rows, S) ==
  IF \A i \in S : rows[i] = <<>> THEN Null
  ELSE SumOver([i \in S |-> SumSeq(rows[i])], S)

\* Model.objects.aggregate(Count('id')) over the rows of the tickets in S
AggregateCount(rows, S) == SumOver([i \in S |-> Len(rows[i])], S)

\* Ticket.accepted_expeditures(): the expenses of a ticket in state 'expenses
\* filed', reduced to its rating percentage
accepted_expeditures(i) ==
  IF tickets[i].state = "expenses filed"
    THEN (SumSeq(expeditures[i]) * tickets[i].rating_percentage) \div 100
    ELSE 0

\* line 214: Ticket.objects.filter(state='expenses filed', rating_percentage__gt=0)
AcceptedTickets ==
  {i \in AllTickets : tickets[i].state = "expenses filed" /\ tickets[i].rating_percentage > 0}

\* line 219: Ticket.objects.filter(requested_user=None)
userless == {i \in AllTickets : tickets[i].requested_user = NoUser}

\* line 225: Ticket.objects.filter(state='expenses filed', requested_user=None)
UserlessFiled ==
  {i \in AllTickets : tickets[i].state = "expenses filed" /\ tickets[i].requested_user = NoUser}

\* lines 209-217; the Transaction total of line 216 reads no ticket
totals ==
  [ticket_count |-> Len(tickets),
   media |-> [objects |-> AggregateCount(mediainfo, AllTickets),
              media |-> AggregateSum(mediainfo, AllTickets)],
   expeditures |-> [total |-> AggregateSum(expeditures, AllTickets),
                    accepted |-> SumOver([i \in AcceptedTickets |-> accepted_expeditures(i)],
                                         AcceptedTickets)]]

\* lines 221-226; t is the ticket the name t of line 214's comprehension is
\* left bound to, and the comprehension of line 225 adds it up once per row
unassigned(t) ==
  [ticket_count |-> Cardinality(userless),
   media |-> [objects |-> AggregateCount(mediainfo, userless),
              media |-> AggregateSum(mediainfo, userless)],
   total_expeditures |-> AggregateSum(expeditures, userless),
   accepted_expeditures |->
     SumOver([i \in UserlessFiled |-> accepted_expeditures(t)], UserlessFiled)]

NoUnassigned ==
  [ticket_count |-> 0, media |-> [objects |-> 0, media |-> Null],
   total_expeditures |-> Null, accepted_expeditures |-> 0]

user_list ==
  /\ report = NoReport
  /\ UNCHANGED <<topics, tickets, mediainfo, expeditures, request, response, session>>
  /\ IF Cardinality(userless) > 0
       THEN IF UserlessFiled = {}
              \* the comprehension of line 225 has nothing to evaluate
              THEN report' = [status |-> "ok", totals |-> totals, has_unassigned |-> TRUE,
                              unassigned |-> unassigned(0)]
              ELSE IF AcceptedTickets = {}
                     \* line 214 never bound t: the name is unbound at line 225
                     THEN report' = [status |-> "error"]
                     \* t is bound to the last row of line 214's queryset, whose
                     \* order is the model's default ordering
                     ELSE \E t \in AcceptedTickets :
                            report' = [status |-> "ok", totals |-> totals,
                                       has_unassigned |-> TRUE, unassigned |-> unassigned(t)]
       ELSE report' = [status |-> "ok", totals |-> totals, has_unassigned |-> FALSE,
                       unassigned |-> NoUnassigned]

\* rows the user list is computed over
ListedTicketRows ==
  {[NewTicket EXCEPT !.topic = 1, !.requested_user = u, !.state = st,
                     !.rating_percentage = r] :
     u \in {"alice", NoUser}, st \in {"for consideration", "expenses filed"},
     r \in {0, 50, 100}}

InitUsers ==
  /\ topics = [t \in TopicIds |-> TRUE]
  /\ \E n \in 0..ListedTickets :
       /\ tickets \in [1..n -> ListedTicketRows]
       /\ mediainfo \in [1..n -> SeqsUpTo({3}, MaxItems)]
       /\ expeditures \in [1..n -> SeqsUpTo({2, 4}, MaxItems)]
  /\ request = NoRequest
  /\ response = NoResponse
  /\ session = IdleSession
  /\ report = NoReport

NextUsers == user_list

SpecUsers == InitUsers /\ [][NextUsers]_vars

(* ---------------------------------------------------------------------- *)
(* Detail pages: CommentPostedCatcher                                      *)
(* ---------------------------------------------------------------------- *)
Pages == [model : {"ticket", "topic"}, pk : {1, 2, 3}]
QueryArgs == {"c", "page"}

\* The user opens a detail page.
Visit(path, query) ==
  /\ session.pc \in {"idle", "rendered"}
  /\ "c" \in query => session.messages < MaxMessages
  /\ session' = [pc |-> "request",
                 visit |-> [path |-> path, query |-> query, messages |-> session.messages],
                 path |-> path, query |-> query, redirects |-> 0,
                 messages |-> session.messages]
  /\ UNCHANGED <<topics, tickets, mediainfo, expeditures, request, response, report>>

\* a redirect to the full path, query string included
RedirectLocation_full_path(path, query) == [path |-> path, query |-> query]

\* where HttpResponseRedirect(request.path) sends the browser
RedirectLocation(path, query) == [path |-> path, query |-> {}]

\* CommentPostedCatcher.get, as TicketDetailView and TopicDetailView inherit it
CommentPostedCatcher_get ==
  /\ session.pc = "request"
  /\ IF "c" \in session.query
       THEN LET to == RedirectLocation(session.path, session.query) IN
            session' = [session EXCEPT !.pc = "redirected",
                                       !.messages = @ + 1,
                                       !.path = to.path, !.query = to.query]
       ELSE session' = [session EXCEPT !.pc = "rendered"]
  /\ UNCHANGED <<topics, tickets, mediainfo, expeditures, request, response, report>>

\* The browser follows the redirect with a GET of its location.
FollowRedirect ==
  /\ session.pc = "redirected"
  /\ session.redirects < MaxRedirects
  /\ session' = [session EXCEPT !.pc = "request", !.redirects = @ + 1]
  /\ UNCHANGED <<topics, tickets, mediainfo, expeditures, request, response, report>>

NextComment ==
  \/ \E path \in Pages, query \in SUBSET QueryArgs : Visit(path, query)
  \/ CommentPostedCatcher_get
  \/ FollowRedirect

\* The server answers every request and the browser follows every redirect.
SpecComment ==
  /\ Init
  /\ [][NextComment]_vars
  /\ WF_vars(CommentPostedCatcher_get)
  /\ WF_vars(FollowRedirect)

(* ---------------------------------------------------------------------- *)
(* Properties                                                              *)
(* ---------------------------------------------------------------------- *)
\* the step in which the handler of the named view serves a request
Handled(view) ==
  /\ response = NoResponse
  /\ response' # NoResponse
  /\ request'.view = view

LineItemsUnchanged ==
  /\ tickets' = tickets
  /\ mediainfo' = mediainfo
  /\ expeditures' = expeditures

Malformed(req) == req.mediainfo.malformed \/ req.expeditures.malformed

\* C1: after a successful create_ticket POST the new ticket holds MediaInfo
\* rows only if its topic has ticket_media set and Expediture rows only if it
\* has ticket_expenses set; under a topic with both flags off it holds no
\* line-item row, whatever the POST carried.
CreateAttachesByTopicFlags ==
  (request.view = "create_ticket" /\ response.status = "redirect") =>
    LET id == response.pk
        flags == TopicFlags[tickets[id].topic]
    IN /\ mediainfo[id] # <<>> => flags.ticket_media
       /\ expeditures[id] # <<>> => flags.ticket_expenses
       /\ (~flags.ticket_media /\ ~flags.ticket_expenses)
            => (mediainfo[id] = <<>> /\ expeditures[id] = <<>>)

CreateUnderPlainTopicWitness ==
  /\ request.view = "create_ticket"
  /\ response.status = "redirect"
  /\ ~TopicFlags[request.topic].ticket_media
  /\ ~TopicFlags[request.topic].ticket_expenses
  /\ request.mediainfo.new # <<>>
  /\ request.expeditures.new # <<>>
  /\ mediainfo[response.pk] = <<>>
  /\ expeditures[response.pk] = <<>>

\* C2: an edit_ticket POST by a permitted user whose formsets are valid is
\* saved exactly when the posted topic is open for tickets or is the topic
\* the ticket already has.
EditAcceptsOpenOrCurrentTopic ==
  [][(/\ Handled("edit_ticket")
      /\ request'.method = "POST"
      /\ request'.can_edit
      /\ ~Malformed(request')
      /\ ~request'.mediainfo.invalid
      /\ ~request'.expeditures.invalid)
     => (response'.status = "redirect"
           <=> \E t \in TopicIds :
                 /\ t = request'.topic
                 /\ (topics[t] \/ t = tickets[request'.pk].topic))]_vars

EditKeepsClosedTopicWitness ==
  /\ request.view = "edit_ticket"
  /\ response.status = "redirect"
  /\ ~topics[tickets[request.pk].topic]

\* C3: an edit_ticket request, GET or POST, by a user the ticket's can_edit
\* turns down is answered with the forbidden response, renders no form and
\* leaves the ticket and its line items as they were.
EditForbiddenWithoutRights ==
  [][(/\ Handled("edit_ticket")
      /\ request'.pk \in 1..Len(tickets)
      /\ ~request'.can_edit)
     => (/\ response'.status = "forbidden"
         /\ response'.template = ""
         /\ LineItemsUnchanged)]_vars

ForbiddenPostWitness ==
  /\ request.view = "edit_ticket"
  /\ response.status = "forbidden"
  /\ request.method = "POST"
  /\ request.topic \in TopicIds
  /\ request.topic # tickets[request.pk].topic
  /\ request.mediainfo.new # <<>>

AsAmount(x) == IF x = Null THEN 0 ELSE x

IndependentSum(rows, S) == SumOver([i \in S |-> SumSeq(rows[i])], S)

\* C4: every total of the user list, overall and unassigned, is the sum of
\* the per-ticket amounts over the tickets it covers; the unassigned accepted
\* expenses are the sum of accepted_expeditures() over the unassigned tickets
\* the overall accepted total counts.
UserListTotalsAreSums ==
  report.status = "ok" =>
    /\ report.totals.ticket_count = Cardinality(AllTickets)
    /\ report.totals.media.objects = SumOver([i \in AllTickets |-> Len(mediainfo[i])], AllTickets)
    /\ AsAmount(report.totals.media.media) = IndependentSum(mediainfo, AllTickets)
    /\ AsAmount(report.totals.expeditures.total) = IndependentSum(expeditures, AllTickets)
    /\ report.totals.expeditures.accepted =
         SumOver([i \in AllTickets |-> accepted_expeditures(i)], AcceptedTickets)
    /\ report.has_unassigned =>
         LET none == {i \in AllTickets : tickets[i].requested_user = NoUser} IN
         /\ report.unassigned.ticket_count = Cardinality(none)
         /\ report.unassigned.media.objects = SumOver([i \in none |-> Len(mediainfo[i])], none)
         /\ AsAmount(report.unassigned.media.media) = IndependentSum(mediainfo, none)
         /\ AsAmount(report.unassigned.total_expeditures) = IndependentSum(expeditures, none)
         /\ report.unassigned.accepted_expeditures =
              SumOver([i \in AllTickets |-> accepted_expeditures(i)], none \cap AcceptedTickets)

\* C5 as the specification states it: a create_ticket POST with a valid main
\* form creates the ticket when the only invalid line-item data is of a kind
\* the chosen topic does not collect.
CreateSkipsUncollectedValidation ==
  (/\ request.view = "create_ticket"
   /\ request.method = "POST"
   /\ ~Malformed(request)
   /\ request.topic \in TopicIds
   /\ topics[request.topic]
   /\ request.mediainfo.invalid => ~TopicFlags[request.topic].ticket_media
   /\ request.expeditures.invalid => ~TopicFlags[request.topic].ticket_expenses)
  => response.status = "redirect"

\* C5, amended: create_ticket validates both line-item collections whatever
\* the flags of the chosen topic; a POST with invalid media or expense data is
\* rendered again and creates nothing.
CreateValidatesBothCollections ==
  [][(/\ Handled("create_ticket")
      /\ request'.method = "POST"
      /\ ~Malformed(request')
      /\ (request'.mediainfo.invalid \/ request'.expeditures.invalid))
     => (/\ response'.status = "render"
         /\ LineItemsUnchanged)]_vars

CreateRejectsUncollectedWitness ==
  /\ request.view = "create_ticket"
  /\ request.method = "POST"
  /\ response.status = "render"
  /\ request.topic \in TopicIds
  /\ topics[request.topic]
  /\ ~TopicFlags[request.topic].ticket_media
  /\ request.mediainfo.invalid
  /\ ~request.expeditures.invalid

\* C6: a ticket comes into being only with a topic that is open for tickets
\* at that moment, and a ticket's topic changes only to a topic that is open
\* at that moment.
TicketTopicOpenOrKept ==
  [][\A i \in 1..Len(tickets') :
       IF i > Len(tickets)
         THEN tickets'[i].topic \in TopicIds /\ topics[tickets'[i].topic]
         ELSE \/ tickets'[i].topic = tickets[i].topic
              \/ tickets'[i].topic \in TopicIds /\ topics[tickets'[i].topic]]_vars

CreateAmongClosedTopicsWitness ==
  /\ request.view = "create_ticket"
  /\ response.status = "redirect"
  /\ \E t \in TopicIds : ~topics[t]

\* C7: a create_ticket or edit_ticket POST that does not succeed writes
\* nothing: with a malformed formset payload the answer is a bad request, with
\* an invalid main form or collection the page is rendered again, and in both
\* cases no Ticket, MediaInfo or Expediture row is created, changed or deleted.
FailedPostPersistsNothing ==
  [][(/\ response = NoResponse
      /\ response' # NoResponse
      /\ request'.view \in {"create_ticket", "edit_ticket"}
      /\ request'.method = "POST")
     => (/\ response'.status # "redirect" => LineItemsUnchanged
         /\ (request'.view = "create_ticket" \/ request'.can_edit) =>
              /\ Malformed(request') => response'.status = "bad_request"
              /\ (/\ ~Malformed(request')
                  /\ \/ request'.topic = NoTopic
                     \/ request'.mediainfo.invalid
                     \/ request'.expeditures.invalid)
                 => response'.status = "render")]_vars

EditRejectedWitness ==
  /\ request.view = "edit_ticket"
  /\ request.method = "POST"
  /\ response.status = "render"
  /\ request.topic \in TopicIds
  /\ topics[request.topic]
  /\ request.expeditures.invalid
  /\ request.mediainfo.new # <<>>

\* the rows after a save: those kept, then one per filled-in extra form
RowsAfter(old, new, data) ==
  /\ Len(new) = Len(old) - Cardinality(data.delete) + Len(data.new)
  /\ \A j \in 1..Len(data.new) : new[Len(new) - Len(data.new) + j] = data.new[j]

\* C8: a successful edit_ticket POST writes the main form and both line-item
\* collections, additions and deletions included, whatever the flags of the
\* ticket's topic.
EditPersistsBothCollections ==
  [][(Handled("edit_ticket") /\ response'.status = "redirect")
     => LET pk == request'.pk IN
        /\ tickets'[pk].topic = request'.topic
        /\ RowsAfter(mediainfo[pk], mediainfo'[pk], request'.mediainfo)
        /\ RowsAfter(expeditures[pk], expeditures'[pk], request'.expeditures)]_vars

EditAddsUncollectedItemWitness ==
  /\ request.view = "edit_ticket"
  /\ response.status = "redirect"
  /\ ~TopicFlags[tickets[request.pk].topic].ticket_media
  /\ request.mediainfo.new # <<>>
  /\ mediainfo[request.pk] # <<>>

\* C9: a created ticket has the requesting user as requested_user and the
\* state 'for consideration' whatever the POST carries, and no edit_ticket
\* request changes a field the form excludes.
ExcludedFieldsUntouched ==
  [][(response = NoResponse /\ response' # NoResponse)
     => (/\ (request'.view = "create_ticket" /\ response'.status = "redirect") =>
              /\ Len(tickets') = Len(tickets) + 1
              /\ tickets'[Len(tickets')].requested_user = request'.user
              /\ tickets'[Len(tickets')].state = "for consideration"
         /\ request'.view = "edit_ticket" =>
              /\ Len(tickets') = Len(tickets)
              /\ \A i \in 1..Len(tickets) :
                   /\ tickets'[i].requested_user = tickets[i].requested_user
                   /\ tickets'[i].state = tickets[i].state
                   /\ tickets'[i].custom_state = tickets[i].custom_state
                   /\ tickets'[i].rating_percentage = tickets[i].rating_percentage
                   /\ tickets'[i].amount_paid = tickets[i].amount_paid
                   /\ tickets'[i].cluster = tickets[i].cluster)]_vars

EditByOtherUserWitness ==
  /\ request.view = "edit_ticket"
  /\ response.status = "redirect"
  /\ request.user # tickets[request.pk].requested_user
  /\ request.excluded.state # tickets[request.pk].state
  /\ tickets[request.pk].state = "for consideration"

\* C10: a GET of a detail page with the 'c' argument records one message and
\* redirects to the same path without query string, a GET without it is
\* handed to the detail view, and every visit ends on the rendered page after
\* one redirect if it carried 'c' and none otherwise.
CommentRedirectReachesPage ==
  /\ [][session.pc = "request" /\ session' # session
        => IF "c" \in session.query
             THEN /\ session'.pc = "redirected"
                  /\ session'.messages = session.messages + 1
                  /\ session'.path = session.path
                  /\ session'.query = {}
             ELSE /\ session'.pc = "rendered"
                  /\ session'.messages = session.messages
                  /\ session'.path = session.path]_vars
  /\ [](session.redirects <= 1)
  /\ [](session.pc = "rendered" =>
          LET n == IF "c" \in session.visit.query THEN 1 ELSE 0 IN
          /\ session.redirects = n
          /\ session.messages = session.visit.messages + n
          /\ session.path = session.visit.path)
  /\ (session.pc = "request" ~> session.pc = "rendered")

CommentVisitRenderedWitness ==
  /\ session.pc = "rendered"
  /\ "c" \in session.visit.query
  /\ session.redirects = 1
  /\ session.messages = session.visit.messages + 1

====
